---- MODULE Spec2Model ----
(***************************************************************************)
(* A model of the AI refinement framework: the agent registry              *)
(* (AIFramework: role -> binding table, provider cache, prompt table) and  *)
(* the CAIR refinement pipeline (CAIRPipeline.execute) that drives it,     *)
(* with the no-op provider (MockProvider) and the cost tracker             *)
(* (CostTracker) as objects the caller uses on their own.                  *)
(*                                                                         *)
(* Python dicts are functions whose DOMAIN is the set of keys present.     *)
(* Python str values are TLA+ strings (Len, \o and SubSeq apply to them).  *)
(* A Python float is a pair <<hundredths, ulps>>: the double nearest to    *)
(* hundredths/100, moved by ulps units in the last place.  The pairs are   *)
(* ordered lexicographically, which is the order of the doubles they       *)
(* stand for.                                                              *)
(***************************************************************************)
EXTENDS Integers, Sequences, FiniteSets, TLC

(***************************************************************************)
(* Bounds of the model.                                                    *)
(***************************************************************************)
\* how many calls the caller makes on the registry / the pipeline
MaxOps == 4
\* the largest max_iterations a pipeline is constructed with
MaxIterations == 5

(***************************************************************************)
(* core.py: the enumerations (by their .value).                            *)
(***************************************************************************)
GENERATOR == "generator"
REVIEWER == "reviewer"
REFINER == "refiner"
QA_ANALYST == "qa_analyst"
ORCHESTRATOR == "orchestrator"
Role == {GENERATOR, REVIEWER, REFINER, QA_ANALYST, ORCHESTRATOR}
ModelTier == {"pro", "flash"}

(***************************************************************************)
(* Floats.                                                                 *)
(***************************************************************************)
Float(hundredths) == <<hundredths, 0>>
FloatGE(a, b) == a[1] > b[1] \/ (a[1] = b[1] /\ a[2] >= b[2])
FloatLE(a, b) == FloatGE(b, a)

(***************************************************************************)
(* Python slicing s[:n].                                                   *)
(***************************************************************************)
Prefix(s, n) == IF Len(s) <= n THEN s ELSE SubSeq(s, 1, n)

(***************************************************************************)
(* str.lower() on ASCII text, and the test "sub in text".                  *)
(***************************************************************************)
UpperCase == "ABCDEFGHIJKLMNOPQRSTUVWXYZ"
LowerCase == "abcdefghijklmnopqrstuvwxyz"
LowerChar(c) ==
    IF \E i \in 1..Len(UpperCase) : SubSeq(UpperCase, i, i) = c
    THEN LET i == CHOOSE j \in 1..Len(UpperCase) : SubSeq(UpperCase, j, j) = c
         IN SubSeq(LowerCase, i, i)
    ELSE c

RECURSIVE Lower(_)
Lower(text) ==
    IF Len(text) = 0 THEN ""
    ELSE LowerChar(SubSeq(text, 1, 1)) \o Lower(SubSeq(text, 2, Len(text)))

Contains(text, sub) ==
    \E i \in 0..(Len(text) - Len(sub)) : SubSeq(text, i + 1, i + Len(sub)) = sub

\* the number of prompt characters a response echoes (prompt[:50])
EchoLen == 50

(***************************************************************************)
(* providers.py                                                            *)
(***************************************************************************)
\* MockProvider.__init__: a fresh handle.  call_count is the attribute of
\* MockProvider; on a vendor handle it is a ghost counter of the generate
\* calls made on it.
NewHandle(class) == [class |-> class, call_count |-> 0]

\* (mutant) the echo is cut one character late
MockTextLate(prompt, model) ==
    "[Mock " \o model \o "] Response to: " \o Prefix(prompt, EchoLen + 1) \o "..."

\* MockProvider.generate: the text returned
MockText(prompt, model) ==
    "[Mock " \o model \o "] Response to: " \o Prefix(prompt, EchoLen) \o "..."

\* MockProvider.generate: the handle after the call
MockGenerate(handle) == [handle EXCEPT !.call_count = @ + 1]

\* The outcomes of constructing a provider for a name.  OpenAIProvider() and
\* AnthropicProvider() import the vendor package and build its client with
\* api_key = None: they return, raise ImportError (package missing) or raise
\* another error out of the vendor's client constructor (no credential in the
\* environment).  GeminiProvider() with api_key = None only imports the
\* package.  MockProvider() always returns.
Outcomes == {"ok", "ImportError", "Error"}
CtorOutcomes(provider_name) ==
    IF provider_name \in {"openai", "anthropic"} THEN Outcomes
    ELSE IF provider_name \in {"google", "gemini"} THEN {"ok", "ImportError"}
    ELSE {"ok"}

\* MockProvider.get_available_models
MockModels == <<"mock-gpt-4", "mock-claude-3", "mock-gemini-pro">>

(***************************************************************************)
(* cost.py.  An amount of USD is a float: the pair <<units, ulps>> is the  *)
(* double nearest to units * 1e-8 dollars, moved by ulps units in the last *)
(* place.                                                                  *)
(***************************************************************************)
Usd(units) == <<units, 0>>

\* MODEL_COSTS: USD per 1K tokens, here in units of 1e-5 dollars
MODEL_COSTS ==
    [m \in {"gpt-4", "gpt-4-turbo", "gpt-4o", "gpt-3.5-turbo",
            "claude-3-opus-20240229", "claude-3-sonnet-20240229",
            "claude-3-5-sonnet-20240620", "claude-3-haiku-20240307",
            "gemini-pro", "gemini-1.5-pro", "gemini-1.5-flash"} |->
       CASE m = "gpt-4" -> [input |-> 3000, output |-> 6000]
         [] m = "gpt-4-turbo" -> [input |-> 1000, output |-> 3000]
         [] m = "gpt-4o" -> [input |-> 500, output |-> 1500]
         [] m = "gpt-3.5-turbo" -> [input |-> 50, output |-> 150]
         [] m = "claude-3-opus-20240229" -> [input |-> 1500, output |-> 7500]
         [] m = "claude-3-sonnet-20240229" -> [input |-> 300, output |-> 1500]
         [] m = "claude-3-5-sonnet-20240620" -> [input |-> 300, output |-> 1500]
         [] m = "claude-3-haiku-20240307" -> [input |-> 25, output |-> 125]
         [] m = "gemini-pro" -> [input |-> 25, output |-> 50]
         [] m = "gemini-1.5-pro" -> [input |-> 350, output |-> 1050]
         [] m = "gemini-1.5-flash" -> [input |-> 35, output |-> 105]]

\* (mutant) the pricing of a model is looked up without the test for the model
EstimateCostStrict(model, input_tokens, output_tokens) ==
    IF model \notin DOMAIN MODEL_COSTS
    THEN [status |-> "KeyError", value |-> Usd(0)]
    ELSE [status |-> "ok",
          value |-> Usd(input_tokens * MODEL_COSTS[model].input
                        + output_tokens * MODEL_COSTS[model].output)]

\* CostTracker.estimate_cost.  (tokens / 1000) * price is computed in
\* binary64; for the token counts the calls are explored with (tokens / 1000
\* is 0.0, 0.5 or 1.0, and one of the two counts is 0) the products and their
\* sum are exact, so the result is the double nearest to the decimal value.
EstimateCost(model, input_tokens, output_tokens) ==
    IF model \notin DOMAIN MODEL_COSTS
    THEN [status |-> "ok", value |-> Usd(0)]
    ELSE LET pricing == MODEL_COSTS[model]
             input_cost == input_tokens * pricing.input
             output_cost == output_tokens * pricing.output
         IN [status |-> "ok", value |-> Usd(input_cost + output_cost)]

\* the cost of the calls explored that cost anything: 0.03 USD
UnitCost == 3000000

\* 0.03 added k times to 0.0 in binary64 is the double nearest to k * 0.03
\* for k up to 9; it is one unit in the last place above it for k = 10 and
\* 11 (0.30000000000000004, 0.33000000000000007) and two above for k = 12.
ChainUlps(k) == IF k <= 9 THEN 0 ELSE IF k <= 11 THEN 1 ELSE 2

\* self.total_cost += cost, for a total accumulated from costs of 0.0 and
\* 0.03 and a cost that is one of the two; adding 0.0 leaves a float as it is
AddUsd(total, cost) ==
    IF cost = Usd(0) THEN total
    ELSE <<total[1] + cost[1], ChainUlps((total[1] + cost[1]) \div UnitCost)>>

(***************************************************************************)
(* framework.py: AIFramework                                               *)
(***************************************************************************)
\* AIFramework._get_provider, given the outcome of the vendor constructor.
\* [raised |-> TRUE] stands for the exception leaving _get_provider.
VendorOrMock(class, outcome) ==
    IF outcome = "ok" THEN [raised |-> FALSE, handle |-> NewHandle(class)]
    ELSE IF outcome = "ImportError"
         THEN [raised |-> FALSE, handle |-> NewHandle("MockProvider")]
         ELSE [raised |-> TRUE, handle |-> NewHandle("none")]

\* (mutant) a name outside the built-in set is refused
GetProviderStrict(provider_name, outcome) ==
    IF provider_name = "openai" THEN VendorOrMock("OpenAIProvider", outcome)
    ELSE IF provider_name = "anthropic" THEN VendorOrMock("AnthropicProvider", outcome)
    ELSE IF provider_name = "google" \/ provider_name = "gemini"
         THEN VendorOrMock("GeminiProvider", outcome)
    ELSE [raised |-> TRUE, handle |-> NewHandle("none")]

GetProvider(provider_name, outcome) ==
    IF provider_name = "openai" THEN VendorOrMock("OpenAIProvider", outcome)
    ELSE IF provider_name = "anthropic" THEN VendorOrMock("AnthropicProvider", outcome)
    ELSE IF provider_name = "google" \/ provider_name = "gemini"
         THEN VendorOrMock("GeminiProvider", outcome)
    ELSE [raised |-> FALSE, handle |-> NewHandle("MockProvider")]

\* dict[key] = value
Put(dict, key, value) ==
    [k \in DOMAIN dict \cup {key} |-> IF k = key THEN value ELSE dict[k]]

\* the dict configure_agent stores for a role
Binding(provider, model, tier, temperature, kwargs) ==
    kwargs @@ [provider |-> provider, model |-> model,
               tier |-> tier, temperature |-> temperature]

\* (mutant) the new dict is merged into the role's old one, dict.update style
SetBindingMerged(ag, role, binding) ==
    Put(ag, role, IF role \in DOMAIN ag THEN binding @@ ag[role] ELSE binding)

\* self._agents[role] = {...}
SetBinding(ag, role, binding) == Put(ag, role, binding)

\* the placeholder text dispatch returns for a provider that is no MockProvider
PlaceholderText(role, prompt) ==
    "[" \o role \o "] Response to: " \o Prefix(prompt, EchoLen) \o "..."

\* AIFramework.dispatch once the role is known to have a binding
\* (framework.py lines 107-124)
DispatchBound(ag, pv, role, prompt) ==
    LET agent_config == ag[role]
        provider_name == agent_config.provider
    IN IF provider_name \notin DOMAIN pv
       THEN [status |-> "KeyError", value |-> provider_name,
             providers |-> pv, generate |-> <<>>]
       ELSE LET provider == pv[provider_name]
            IN IF provider.class = "MockProvider"
               THEN LET text == MockText(prompt, agent_config.model)
                    IN [status |-> "ok", value |-> text,
                        providers |-> Put(pv, provider_name, MockGenerate(provider)),
                        generate |-> << [provider |-> provider_name,
                                         prompt |-> prompt,
                                         model |-> agent_config.model,
                                         temperature |-> agent_config.temperature,
                                         text |-> text] >>]
               ELSE [status |-> "ok", value |-> PlaceholderText(role, prompt),
                     providers |-> pv, generate |-> <<>>]

\* (mutant) the binding is looked up without the test for the role; a role
\* without a binding then goes on to the default provider
DispatchCallUnguarded(ag, pv, role, prompt) ==
    IF role \notin DOMAIN ag
    THEN [status |-> "ok", value |-> MockText(prompt, "default"),
          providers |-> [n \in DOMAIN pv |->
                            IF pv[n].class = "MockProvider"
                            THEN MockGenerate(pv[n]) ELSE pv[n]],
          generate |-> <<>>]
    ELSE DispatchBound(ag, pv, role, prompt)

\* AIFramework.dispatch on the tables ag (agents) and pv (providers): the
\* outcome, the text returned (the error's argument when it raised), the
\* providers table afterwards and the generate calls made on provider handles
DispatchCall(ag, pv, role, prompt) ==
    IF role \notin DOMAIN ag
    THEN [status |-> "RoleNotConfiguredError", value |-> role,
          providers |-> pv, generate |-> <<>>]
    ELSE DispatchBound(ag, pv, role, prompt)

\* (mutant) a name keeps the text of its first load
StorePromptOnce(pr, name, text) ==
    IF name \in DOMAIN pr THEN pr ELSE Put(pr, name, text)

\* self._prompts[name] = f.read()
StorePrompt(pr, name, text) == Put(pr, name, text)

\* (mutant) a name that is not in the table gives the empty template
PromptLookupEmpty(pr, name) ==
    IF name \notin DOMAIN pr
    THEN [status |-> "ok", value |-> ""]
    ELSE [status |-> "ok", value |-> pr[name]]

\* AIFramework.get_prompt on the table pr: the outcome and the text returned
\* (the error's argument when it raised)
PromptLookup(pr, name) ==
    IF name \notin DOMAIN pr
    THEN [status |-> "PromptNotFoundError", value |-> name]
    ELSE [status |-> "ok", value |-> pr[name]]

(***************************************************************************)
(* pipeline.py: the placeholder evaluator, 0.7 + (iteration * 0.1) in      *)
(* binary64.  The sum is one unit in the last place below the double       *)
(* nearest to the decimal value for iteration 1 and 2 (0.7999999999999999, *)
(* 0.8999999999999999) and equal to it for the other iterations up to 11.  *)
(***************************************************************************)
RoundingUlps(iteration) == IF iteration \in {1, 2} THEN -1 ELSE 0

QualityScore(iteration) == <<70 + iteration * 10, RoundingUlps(iteration)>>

\* (mutant) the loop goes on when the score equals the threshold
LoopBreaksAbove(score, threshold) == ~FloatGE(threshold, score)

\* if quality_score >= self.quality_threshold: break
LoopBreaks(score, threshold) == FloatGE(score, threshold)

\* (mutant) the reviewer is not shown the draft
ReviewPromptBare(current_output) == "Review this output: "

ReviewPrompt(current_output) == "Review this output: " \o current_output
RefinePrompt(feedback) == "Refine based on feedback: " \o feedback

(***************************************************************************)
(* State.                                                                  *)
(***************************************************************************)
VARIABLES
    agents,             \* AIFramework._agents: role -> binding
    providers,          \* AIFramework._providers: provider name -> handle
    prompts,            \* AIFramework._prompts: name -> text
    generator_role,     \* CAIRPipeline attributes
    reviewer_role,
    refiner_role,
    qa_role,
    max_iterations,
    quality_threshold,
    pc,                 \* where execute stands ("idle": no call in progress)
    initial_prompt,     \* execute's arguments
    context,
    history,            \* execute's locals
    current_output,
    feedback,
    quality_score,
    iteration,
    ops,                \* calls made by the caller so far
    ret,                \* the last call of the caller and how it ended
    configured,         \* the roles for which a configure_agent call has returned
    named,              \* the provider names configure_agent has been called with
    loaded,             \* name -> the content of the file of the latest
                        \* load_prompt of the name that returned
    replaced,           \* <<b>> when the last call was a configure_agent that
                        \* replaced the binding b of its role
    gen_calls,          \* the generate calls made by the caller's last dispatch
    dispatch_log,       \* the dispatches made by the last execute, in order
    score_log,          \* the scores computed by the last execute, in order
    result,             \* <<r>> when the last call was an execute that returned r
    mock,               \* a MockProvider the caller constructed and calls itself
    tracker,            \* a CostTracker: its four attributes
    tracker_ret         \* <<v>> when the last call was an estimate_cost or a
                        \* get_summary of the tracker, which returned v

registry == <<agents, providers, prompts>>
config == <<generator_role, reviewer_role, refiner_role, qa_role,
            max_iterations, quality_threshold>>
locals == <<initial_prompt, context, history, current_output, feedback,
            quality_score, iteration>>
ghost == <<ops, ret, configured, named, loaded, replaced, gen_calls, dispatch_log, score_log, result>>
aside == <<mock, tracker, tracker_ret>>
vars == <<registry, config, pc, locals, ghost, aside>>

EmptyDict == [k \in {} |-> 0]

\* a call of the caller: its name, its arguments (a record that depends on
\* the call), "ok" or the error raised ("running" while execute runs), and
\* the text returned by dispatch and get_prompt
Ret(op, args, status, value) ==
    [op |-> op, args |-> args, status |-> status, value |-> value]


(***************************************************************************)
(* Inputs of the calls, drawn from small sets.                             *)
(***************************************************************************)
ShortPrompt == "Test prompt"
\* longer than the 50 characters a response echoes
LongPrompt == "Create a REST endpoint that lists every user of the service as JSON"
Prompts == {ShortPrompt, LongPrompt}

\* configure_agent's arguments other than the role
Args(provider, model, tier, temperature, kwargs) ==
    [provider |-> provider, model |-> model, tier |-> tier,
     temperature |-> temperature, kwargs |-> kwargs]

TestArgs == Args("test", "test-model", "pro", Float(70), EmptyDict)
OpenAIArgs == Args("openai", "gpt-4", "pro", Float(80), EmptyDict)

ConfigureArgs ==
    { TestArgs, OpenAIArgs,
      Args("anthropic", "claude-3-opus-20240229", "flash", Float(70),
           [max_tokens |-> 100]),
      Args("google", "gemini-pro", "pro", Float(70), EmptyDict) }

\* the roles the caller of the registry configures (dispatch ranges over Role)
CallerRoles == {GENERATOR, ORCHESTRATOR}

\* the bindings the pipeline's runs are explored with
PipelineConfigureArgs == {TestArgs, OpenAIArgs}

\* execute's (initial_prompt, context) arguments; context is <<>> for None
\* and <<dict>> for a dict
ExecuteArgs ==
    { [initial_prompt |-> ShortPrompt, context |-> << [key |-> "value"] >>],
      [initial_prompt |-> LongPrompt, context |-> <<>>] }

\* the roles pipelines are constructed with: the defaults, the custom roles
\* of tests/test_framework.py (reviewer and QA share QA_ANALYST), and one
\* role for the three stages
RoleChoices ==
    { [generator |-> GENERATOR, reviewer |-> REVIEWER,
       refiner |-> REFINER, qa |-> QA_ANALYST],
      [generator |-> ORCHESTRATOR, reviewer |-> QA_ANALYST,
       refiner |-> REFINER, qa |-> QA_ANALYST],
      [generator |-> GENERATOR, reviewer |-> GENERATOR,
       refiner |-> GENERATOR, qa |-> QA_ANALYST] }

\* the quality thresholds pipelines are constructed with
Thresholds == {Float(70), Float(85), Float(100), Float(200)}

PromptNames == {"test", "system"}
\* what the prompt files hold; <<>> stands for a file that cannot be opened
FileContents == {"This is a test prompt with {placeholder}", "line one\r\nline two"}

\* the prompts and models a MockProvider is called with directly: prompts of
\* 0, 49, 50, 51 and 100 characters, two of them equal in their first 50
X10 == "XXXXXXXXXX"
X50 == X10 \o X10 \o X10 \o X10 \o X10
MockPrompts == {"", Prefix(X50, 49), X50, X50 \o "Y", X50 \o "Z", X50 \o X50}
MockModelArgs == {"m", "mock-gpt-4"}
Temperatures == {Float(70), Float(0)}

\* the calls a CostTracker is explored with: a model of the pricing table
\* and one absent from it, token counts, and the cost given (<<>> for None)
CostModels == {"gpt-4", "test-model"}
TokenCounts == { [input_tokens |-> 1000, output_tokens |-> 0],
                 [input_tokens |-> 0, output_tokens |-> 500] }
CostsGiven == {<<>>, <<Usd(UnitCost)>>}

(***************************************************************************)
(* open(filepath, 'r').read(): text mode translates "\r\n" and "\r" to     *)
(* "\n".                                                                   *)
(***************************************************************************)
RECURSIVE TextRead(_)
TextRead(bytes) ==
    IF Len(bytes) = 0 THEN ""
    ELSE IF Len(bytes) >= 2 /\ SubSeq(bytes, 1, 2) = "\r\n"
         THEN "\n" \o TextRead(SubSeq(bytes, 3, Len(bytes)))
    ELSE IF SubSeq(bytes, 1, 1) = "\r"
         THEN "\n" \o TextRead(SubSeq(bytes, 2, Len(bytes)))
    ELSE SubSeq(bytes, 1, 1) \o TextRead(SubSeq(bytes, 2, Len(bytes)))

(***************************************************************************)
(* Construction: AIFramework.__init__, CAIRPipeline.__init__               *)
(***************************************************************************)
NoFrame ==
    /\ initial_prompt = ""
    /\ context = <<>>
    /\ history = <<>>
    /\ current_output = ""
    /\ feedback = ""
    /\ quality_score = Float(0)
    /\ iteration = 0

\* CostTracker.__init__ (and reset)
NewTracker ==
    [total_input_tokens |-> 0, total_output_tokens |-> 0,
     total_cost |-> Usd(0), call_history |-> <<>>]

\* the objects the caller constructs beside the registry
InitAside ==
    /\ mock = NewHandle("MockProvider")
    /\ tracker = NewTracker
    /\ tracker_ret = <<>>

InitFramework ==
    /\ InitAside
    /\ agents = EmptyDict
    /\ providers = EmptyDict
    /\ prompts = EmptyDict
    /\ pc = "idle"
    /\ NoFrame
    /\ ops = 0
    /\ ret = Ret("__init__", EmptyDict, "ok", "")
    /\ configured = {}
    /\ named = {}
    /\ loaded = EmptyDict
    /\ replaced = <<>>
    /\ gen_calls = <<>>
    /\ dispatch_log = <<>>
    /\ score_log = <<>>
    /\ result = <<>>

InitPipeline(roles, iterations, threshold) ==
    /\ generator_role = roles.generator
    /\ reviewer_role = roles.reviewer
    /\ refiner_role = roles.refiner
    /\ qa_role = roles.qa
    /\ max_iterations = iterations
    /\ quality_threshold = threshold

\* the pipeline constructed with the default arguments
DefaultMaxIterations == 3
InitRegistry ==
    /\ InitFramework
    /\ InitPipeline([generator |-> GENERATOR, reviewer |-> REVIEWER,
                     refiner |-> REFINER, qa |-> QA_ANALYST],
                    DefaultMaxIterations, Float(85))

Init ==
    /\ InitFramework
    /\ \E roles \in RoleChoices, n \in 0..MaxIterations, t \in Thresholds :
          InitPipeline(roles, n, t)

(***************************************************************************)
(* The caller's calls on the registry.                                     *)
(***************************************************************************)
\* a call of the caller starts: no execute is in progress
CallStarts ==
    /\ pc = "idle"
    /\ ops < MaxOps
    /\ ops' = ops + 1

\* what a call leaves behind of the call before it
GhostReset ==
    /\ configured' = configured
    /\ named' = named
    /\ replaced' = <<>>
    /\ gen_calls' = <<>>
    /\ dispatch_log' = <<>>
    /\ score_log' = <<>>
    /\ result' = <<>>

\* AIFramework.configure_agent(role, provider, model, tier, temperature,
\* **kwargs); outcome is what the provider's constructor does if called
ConfigureAgent(role, a, outcome) ==
    /\ CallStarts
    /\ UNCHANGED aside
    /\ outcome \in CtorOutcomes(a.provider)
    /\ a.provider \in DOMAIN providers => outcome = "ok"
    /\ agents' = SetBinding(agents, role,
                     Binding(a.provider, a.model, a.tier, a.temperature, a.kwargs))
    /\ LET args == [role |-> role] @@ a
       IN IF a.provider \notin DOMAIN providers
          THEN LET made == GetProvider(a.provider, outcome)
               IN IF made.raised
                  THEN /\ providers' = providers
                       /\ ret' = Ret("configure_agent", args, "Error", "")
                  ELSE /\ providers' = Put(providers, a.provider, made.handle)
                       /\ ret' = Ret("configure_agent", args, "ok", "")
          ELSE /\ providers' = providers
               /\ ret' = Ret("configure_agent", args, "ok", "")
    /\ configured' = IF ret'.status = "ok" THEN configured \cup {role} ELSE configured
    /\ named' = named \cup {a.provider}
    /\ loaded' = loaded
    /\ replaced' = IF role \in DOMAIN agents THEN <<agents[role]>> ELSE <<>>
    /\ gen_calls' = <<>> /\ dispatch_log' = <<>> /\ score_log' = <<>> /\ result' = <<>>
    /\ UNCHANGED <<prompts, config, pc, locals>>

\* AIFramework.dispatch(role, prompt)
Dispatch(role, prompt) ==
    /\ CallStarts
    /\ UNCHANGED aside
    /\ LET d == DispatchCall(agents, providers, role, prompt)
       IN /\ providers' = d.providers
          /\ ret' = Ret("dispatch", [role |-> role, prompt |-> prompt],
                        d.status, d.value)
          /\ gen_calls' = d.generate
    /\ replaced' = <<>> /\ dispatch_log' = <<>> /\ score_log' = <<>> /\ result' = <<>>
    /\ UNCHANGED <<agents, prompts, config, pc, locals, configured, named, loaded>>

\* AIFramework.load_prompt(name, filepath); file is <<bytes>>, or <<>> when
\* the file cannot be opened
LoadPrompt(name, file) ==
    /\ CallStarts
    /\ UNCHANGED aside
    /\ IF file = <<>>
       THEN /\ prompts' = prompts
            /\ loaded' = loaded
            /\ ret' = Ret("load_prompt", [name |-> name, file |-> file],
                          "FileNotFoundError", "")
       ELSE /\ prompts' = StorePrompt(prompts, name, TextRead(file[1]))
            /\ loaded' = Put(loaded, name, file[1])
            /\ ret' = Ret("load_prompt", [name |-> name, file |-> file], "ok", "")
    /\ GhostReset
    /\ UNCHANGED <<agents, providers, config, pc, locals>>

\* AIFramework.get_prompt(name)
GetPrompt(name) ==
    /\ CallStarts
    /\ UNCHANGED aside
    /\ LET got == PromptLookup(prompts, name)
       IN ret' = Ret("get_prompt", [name |-> name], got.status, got.value)
    /\ GhostReset
    /\ loaded' = loaded
    /\ UNCHANGED <<registry, config, pc, locals>>

\* what a call on a MockProvider or a CostTracker leaves alone: the registry
\* and the pipeline
RegistryUntouched ==
    /\ GhostReset
    /\ loaded' = loaded
    /\ UNCHANGED <<registry, config, pc, locals>>

(***************************************************************************)
(* The caller's calls on a MockProvider of its own.                        *)
(***************************************************************************)
\* MockProvider.generate(prompt, model, temperature)
MockGenerateCall(prompt, model, temperature) ==
    /\ CallStarts
    /\ mock' = MockGenerate(mock)
    /\ ret' = Ret("generate",
                  [prompt |-> prompt, model |-> model, temperature |-> temperature],
                  "ok", MockText(prompt, model))
    /\ RegistryUntouched
    /\ UNCHANGED <<tracker, tracker_ret>>

\* MockProvider.get_available_models()
MockGetAvailableModels ==
    /\ CallStarts
    /\ ret' = Ret("get_available_models", [models |-> MockModels], "ok", "")
    /\ RegistryUntouched
    /\ UNCHANGED aside

(***************************************************************************)
(* The caller's calls on a CostTracker.                                    *)
(***************************************************************************)
\* CostTracker.add_call(model, input_tokens, output_tokens, cost)
AddCall(model, tokens, cost) ==
    /\ CallStarts
    /\ LET args == [model |-> model, input_tokens |-> tokens.input_tokens,
                    output_tokens |-> tokens.output_tokens, cost |-> cost]
           est == IF cost = <<>>
                  THEN EstimateCost(model, tokens.input_tokens, tokens.output_tokens)
                  ELSE [status |-> "ok", value |-> cost[1]]
       IN IF est.status # "ok"
          THEN /\ tracker' = tracker
               /\ ret' = Ret("add_call", args, est.status, "")
          ELSE /\ tracker' =
                    [total_input_tokens |->
                        tracker.total_input_tokens + tokens.input_tokens,
                     total_output_tokens |->
                        tracker.total_output_tokens + tokens.output_tokens,
                     total_cost |-> AddUsd(tracker.total_cost, est.value),
                     call_history |->
                        Append(tracker.call_history,
                               [model |-> model,
                                input_tokens |-> tokens.input_tokens,
                                output_tokens |-> tokens.output_tokens,
                                cost |-> est.value])]
               /\ ret' = Ret("add_call", args, "ok", "")
    /\ tracker_ret' = <<>>
    /\ RegistryUntouched
    /\ UNCHANGED mock

\* CostTracker.estimate_cost(model, input_tokens, output_tokens)
EstimateCostCall(model, tokens) ==
    /\ CallStarts
    /\ LET est == EstimateCost(model, tokens.input_tokens, tokens.output_tokens)
       IN /\ ret' = Ret("estimate_cost",
                        [model |-> model, input_tokens |-> tokens.input_tokens,
                         output_tokens |-> tokens.output_tokens],
                        est.status, "")
          /\ tracker_ret' = IF est.status = "ok" THEN <<est.value>> ELSE <<>>
    /\ RegistryUntouched
    /\ UNCHANGED <<mock, tracker>>

\* CostTracker.get_summary()
GetSummary ==
    /\ CallStarts
    /\ ret' = Ret("get_summary", EmptyDict, "ok", "")
    /\ tracker_ret' =
          << [total_calls |-> Len(tracker.call_history),
              total_input_tokens |-> tracker.total_input_tokens,
              total_output_tokens |-> tracker.total_output_tokens,
              total_tokens |-> tracker.total_input_tokens
                                 + tracker.total_output_tokens,
              total_cost_usd |-> tracker.total_cost] >>
    /\ RegistryUntouched
    /\ UNCHANGED <<mock, tracker>>

\* CostTracker.reset()
Reset ==
    /\ CallStarts
    /\ tracker' = NewTracker
    /\ ret' = Ret("reset", EmptyDict, "ok", "")
    /\ tracker_ret' = <<>>
    /\ RegistryUntouched
    /\ UNCHANGED mock

(***************************************************************************)
(* pipeline.py: CAIRPipeline.execute, one step per dispatch.  The caller   *)
(* is blocked while execute runs, so no other call interleaves.            *)
(***************************************************************************)
Logged(stage, role, prompt, d) ==
    [stage |-> stage, role |-> role, prompt |-> prompt,
     status |-> d.status, value |-> d.value]

\* the frame of execute is discarded (it returned or raised)
FrameDiscarded ==
    /\ initial_prompt' = ""
    /\ context' = <<>>
    /\ history' = <<>>
    /\ current_output' = ""
    /\ feedback' = ""
    /\ quality_score' = Float(0)
    /\ iteration' = 0

\* (mutant) the error of a dispatch is caught and execute goes on to return
\* the drafts it has
RaisesSwallowed(d) ==
    /\ pc' = "finalize"
    /\ ret' = ret
    /\ score_log' = score_log
    /\ UNCHANGED locals

\* a dispatch of execute raised: nothing catches the error, it leaves execute
Raises(d) ==
    /\ pc' = "idle"
    /\ ret' = [ret EXCEPT !.status = d.status, !.value = d.value]
    /\ score_log' = score_log
    /\ FrameDiscarded

\* (mutant) the loop runs one round more than max_iterations
LoopEntersOnceMore(i) ==
    IF i <= max_iterations /\ Len(history) <= max_iterations + 1
    THEN "review" ELSE "finalize"

\* range(self.max_iterations) yields index i, or is exhausted
LoopEnters(i) == IF i < max_iterations THEN "review" ELSE "finalize"

\* execute(initial_prompt, context) is called: the locals are initialised
ExecuteBegin(a) ==
    /\ CallStarts
    /\ UNCHANGED aside
    /\ pc' = "generate"
    /\ initial_prompt' = a.initial_prompt
    /\ context' = a.context
    /\ history' = <<>>
    /\ current_output' = ""
    /\ quality_score' = Float(0)
    /\ feedback' = ""
    /\ iteration' = 0
    /\ ret' = Ret("execute", a, "running", "")
    /\ GhostReset
    /\ loaded' = loaded
    /\ UNCHANGED <<registry, config>>

\* Phase 1: Generate
ExecuteGenerate ==
    /\ pc = "generate"
    /\ UNCHANGED aside
    /\ LET d == DispatchCall(agents, providers, generator_role, initial_prompt)
       IN /\ providers' = d.providers
          /\ dispatch_log' = Append(dispatch_log,
                 Logged("generate", generator_role, initial_prompt, d))
          /\ IF d.status = "ok"
             THEN /\ current_output' = d.value
                  /\ history' = Append(history, d.value)
                  /\ pc' = LoopEnters(0)
                  /\ UNCHANGED <<initial_prompt, context, feedback, quality_score,
                                 iteration, ret, score_log>>
             ELSE Raises(d)
    /\ UNCHANGED <<agents, prompts, config, ops, configured, named, loaded, replaced,
                   gen_calls, result>>

\* Review
ExecuteReview ==
    /\ pc = "review"
    /\ UNCHANGED aside
    /\ LET prompt == ReviewPrompt(current_output)
           d == DispatchCall(agents, providers, reviewer_role, prompt)
       IN /\ providers' = d.providers
          /\ dispatch_log' = Append(dispatch_log,
                 Logged("review", reviewer_role, prompt, d))
          /\ IF d.status = "ok"
             THEN /\ feedback' = d.value
                  /\ pc' = "refine"
                  /\ UNCHANGED <<initial_prompt, context, history, current_output,
                                 quality_score, iteration, ret, score_log>>
             ELSE Raises(d)
    /\ UNCHANGED <<agents, prompts, config, ops, configured, named, loaded, replaced,
                   gen_calls, result>>

\* Refine, validate, and the test that ends the loop
ExecuteRefine ==
    /\ pc = "refine"
    /\ UNCHANGED aside
    /\ LET prompt == RefinePrompt(feedback)
           d == DispatchCall(agents, providers, refiner_role, prompt)
           score == QualityScore(iteration)
       IN /\ providers' = d.providers
          /\ dispatch_log' = Append(dispatch_log,
                 Logged("refine", refiner_role, prompt, d))
          /\ IF d.status = "ok"
             THEN /\ current_output' = d.value
                  /\ history' = Append(history, d.value)
                  /\ quality_score' = score
                  /\ score_log' = Append(score_log, score)
                  /\ IF LoopBreaks(score, quality_threshold)
                     THEN /\ pc' = "finalize"
                          /\ iteration' = iteration
                     ELSE /\ pc' = LoopEnters(iteration + 1)
                          /\ iteration' = IF iteration + 1 < max_iterations
                                          THEN iteration + 1 ELSE iteration
                  /\ UNCHANGED <<initial_prompt, context, feedback, ret>>
             ELSE Raises(d)
    /\ UNCHANGED <<agents, prompts, config, ops, configured, named, loaded, replaced,
                   gen_calls, result>>

\* (mutant) iterations counts the refinement rounds, not the drafts
RefinementResultRounds(final_output, score, iterations, hist, metadata) ==
    [final_output |-> final_output, quality_score |-> score,
     iterations |-> iterations - 1, history |-> hist, metadata |-> metadata]

\* (mutant) the result carries the first draft as its final output
RefinementResultFirstDraft(final_output, score, iterations, hist, metadata) ==
    [final_output |-> hist[1], quality_score |-> score,
     iterations |-> iterations, history |-> hist, metadata |-> metadata]

\* RefinementResult.__init__
RefinementResult(final_output, score, iterations, hist, metadata) ==
    [final_output |-> final_output, quality_score |-> score,
     iterations |-> iterations, history |-> hist, metadata |-> metadata]

\* Phase 6: Finalize
ExecuteFinalize ==
    /\ pc = "finalize"
    /\ UNCHANGED aside
    /\ result' = << RefinementResult(
                       current_output, quality_score, Len(history), history,
                       [initial_prompt |-> initial_prompt, context |-> context]) >>
    /\ ret' = [ret EXCEPT !.status = "ok"]
    /\ pc' = "idle"
    /\ FrameDiscarded
    /\ UNCHANGED <<registry, config, ops, configured, named, loaded, replaced, gen_calls,
                   dispatch_log, score_log>>

(***************************************************************************)
(* Specifications.                                                         *)
(***************************************************************************)
\* the registry under the caller's calls, the pipeline being the default one
NextRegistry ==
    \/ \E role \in CallerRoles, a \in ConfigureArgs, outcome \in Outcomes :
          ConfigureAgent(role, a, outcome)
    \/ \E role \in Role, prompt \in Prompts : Dispatch(role, prompt)
    \/ \E name \in PromptNames, file \in {<<>>} \cup {<<c>> : c \in FileContents} :
          LoadPrompt(name, file)
    \/ \E name \in PromptNames : GetPrompt(name)

SpecRegistry == InitRegistry /\ [][NextRegistry]_vars

\* the pipelines of every construction, over the registries the caller configures
Next ==
    \/ \E role \in {generator_role, reviewer_role, refiner_role, qa_role},
          a \in PipelineConfigureArgs, outcome \in Outcomes :
          ConfigureAgent(role, a, outcome)
    \/ \E a \in ExecuteArgs : ExecuteBegin(a)
    \/ ExecuteGenerate
    \/ ExecuteReview
    \/ ExecuteRefine
    \/ ExecuteFinalize

Spec == Init /\ [][Next]_vars

\* the steps of an execute call in progress
ExecuteStep ==
    \/ ExecuteGenerate
    \/ ExecuteReview
    \/ ExecuteRefine
    \/ ExecuteFinalize

\* the pipelines under the assumption that every provider call returns:
\* execute is synchronous code, so a call in progress takes its next step
SpecLive == Init /\ [][Next]_vars /\ WF_vars(ExecuteStep)

\* a MockProvider under the caller's calls
NextMock ==
    \/ \E prompt \in MockPrompts, model \in MockModelArgs, temperature \in Temperatures :
          MockGenerateCall(prompt, model, temperature)
    \/ MockGetAvailableModels

SpecMock == InitRegistry /\ [][NextMock]_vars

\* a CostTracker under the caller's calls
NextCost ==
    \/ \E model \in CostModels, tokens \in TokenCounts, cost \in CostsGiven :
          AddCall(model, tokens, cost)
    \/ \E model \in CostModels, tokens \in TokenCounts :
          EstimateCostCall(model, tokens)
    \/ GetSummary
    \/ Reset

SpecCost == InitRegistry /\ [][NextCost]_vars

(***************************************************************************)
(* Properties of the registry (checked under SpecRegistry).                *)
(***************************************************************************)
\* the step is a call op(...) of the caller on the registry
IsCall(op) == ops' = ops + 1 /\ ret'.op = op

\* C1: a dispatch to a role that has no binding raises RoleNotConfiguredError,
\* makes no generate call (no handle's call counter moves) and leaves the
\* binding table, the provider cache and the prompt table as they were,
\* whatever calls came before it.
C1_UnconfiguredDispatchFails ==
    [][ (IsCall("dispatch") /\ ret'.args.role \notin DOMAIN agents)
          => /\ ret'.status = "RoleNotConfiguredError"
             /\ gen_calls' = <<>>
             /\ \A n \in DOMAIN providers :
                   n \in DOMAIN providers'
                   /\ providers'[n].call_count = providers[n].call_count
             /\ agents' = agents /\ providers' = providers /\ prompts' = prompts
      ]_vars

\* a dispatch to a role without a binding has failed, after a role was bound,
\* a no-op provider was called and a prompt was loaded
C1_Witness ==
    /\ ret.op = "dispatch"
    /\ ret.args.role \notin DOMAIN agents
    /\ ret.status = "RoleNotConfiguredError"
    /\ \E n \in DOMAIN providers :
          providers[n].class = "MockProvider" /\ providers[n].call_count > 0
    /\ DOMAIN prompts # {}

\* C4 (as claimed): a dispatch to a role whose binding has a handle in the
\* cache makes exactly one generate call on that handle, with the prompt and
\* the bound model and temperature, and returns the text of that call.
C4_DispatchForwardsToHandle ==
    (/\ ret.op = "dispatch"
     /\ ret.args.role \in DOMAIN agents
     /\ agents[ret.args.role].provider \in DOMAIN providers)
    => /\ ret.status = "ok"
       /\ Len(gen_calls) = 1
       /\ gen_calls[1].provider = agents[ret.args.role].provider
       /\ gen_calls[1].prompt = ret.args.prompt
       /\ gen_calls[1].model = agents[ret.args.role].model
       /\ gen_calls[1].temperature = agents[ret.args.role].temperature
       /\ ret.value = gen_calls[1].text

\* C6: configure_agent overwrites: after the call the role's binding is
\* exactly the one given (provider, model, tier, temperature and the extra
\* options, and no other key), and every other role's binding is as before.
C6_ConfigureOverwrites ==
    [][ IsCall("configure_agent")
          => LET a == ret'.args
                 r == a.role
             IN /\ DOMAIN agents' = DOMAIN agents \cup {r}
                /\ DOMAIN agents'[r] =
                      {"provider", "model", "tier", "temperature"} \cup DOMAIN a.kwargs
                /\ agents'[r].provider = a.provider
                /\ agents'[r].model = a.model
                /\ agents'[r].tier = a.tier
                /\ agents'[r].temperature = a.temperature
                /\ \A k \in DOMAIN a.kwargs : agents'[r][k] = a.kwargs[k]
                /\ \A o \in DOMAIN agents \ {r} : agents'[o] = agents[o]
      ]_vars

\* a role whose binding carried an extra option has been configured again
\* without it, while another role is bound
C6_Witness ==
    /\ ret.op = "configure_agent"
    /\ replaced # <<>>
    /\ "max_tokens" \in DOMAIN replaced[1]
    /\ "max_tokens" \notin DOMAIN agents[ret.args.role]
    /\ replaced[1].provider # agents[ret.args.role].provider
    /\ DOMAIN agents # {ret.args.role}

\* the provider names _get_provider knows
BuiltInNames == {"openai", "anthropic", "google", "gemini"}

\* C10: configure_agent with a provider name outside the built-in set does
\* not fail: the role is bound to the name and a no-op provider is cached
\* under it; a later dispatch to a role bound to such a name returns the
\* no-op provider's echo.
C10_UnknownProviderIsNoOp ==
    /\ (ret.op = "configure_agent" /\ ret.args.provider \notin BuiltInNames)
       => /\ ret.status = "ok"
          /\ ret.args.role \in DOMAIN agents
          /\ agents[ret.args.role].provider = ret.args.provider
          /\ ret.args.provider \in DOMAIN providers
          /\ providers[ret.args.provider].class = "MockProvider"
    /\ (/\ ret.op = "dispatch"
        /\ ret.args.role \in DOMAIN agents
        /\ agents[ret.args.role].provider \notin BuiltInNames)
       => /\ ret.status = "ok"
          /\ ret.value = MockText(ret.args.prompt, agents[ret.args.role].model)

\* a role bound to the unknown name "test" has answered a dispatch of the
\* long prompt
C10_Witness ==
    /\ ret.op = "dispatch"
    /\ ret.status = "ok"
    /\ ret.args.role \in DOMAIN agents
    /\ agents[ret.args.role].provider = "test"
    /\ ret.args.prompt = LongPrompt

\* C11 (as claimed): the provider cache holds one handle for each provider
\* name configure_agent was ever called with, and for no other name; a handle
\* is never removed, a configure_agent call leaves the handles already cached
\* as they are (it adds at most the handle of its own name), no other call
\* adds a handle, and a dispatch that returns through a no-op handle adds one
\* to that handle's call counter, whichever role is dispatched, and leaves
\* every other handle as it is.
C11_OneHandlePerName ==
    /\ [](DOMAIN providers = named)
    /\ [][ /\ DOMAIN providers \subseteq DOMAIN providers'
           /\ IsCall("configure_agent")
              => /\ \A n \in DOMAIN providers : providers'[n] = providers[n]
                 /\ DOMAIN providers' \subseteq DOMAIN providers \cup {ret'.args.provider}
           /\ ~IsCall("configure_agent") => DOMAIN providers' = DOMAIN providers
           /\ (IsCall("dispatch") /\ ret'.status = "ok")
              => LET name == agents[ret'.args.role].provider
                 IN /\ \A n \in DOMAIN providers \ {name} : providers'[n] = providers[n]
                    /\ providers[name].class = "MockProvider"
                       => providers'[name].call_count = providers[name].call_count + 1
         ]_vars

\* the text holds a carriage return
HasCR(text) == \E i \in 1..Len(text) : SubSeq(text, i, i) = "\r"

\* C12 (as claimed): get_prompt(name), after a load_prompt(name, file) that
\* returned, returns exactly the content of the file of the latest such load.
C12_RoundTripExact ==
    (ret.op = "get_prompt" /\ ret.args.name \in DOMAIN loaded)
    => /\ ret.status = "ok"
       /\ ret.value = loaded[ret.args.name]

\* C12 (amended): get_prompt(name), after a load_prompt(name, file) that
\* returned, returns the content of the file of the latest such load as text
\* mode reads it, every "\r\n" and every other "\r" replaced by "\n": exactly
\* the content when it holds no carriage return.  This holds whatever
\* configure_agent, dispatch and load_prompt calls of other names were made
\* since, and get_prompt does not change the prompt table.
C12_RoundTripText ==
    /\ []( (ret.op = "get_prompt" /\ ret.args.name \in DOMAIN loaded)
           => /\ ret.status = "ok"
              /\ ret.value = TextRead(loaded[ret.args.name])
              /\ ~HasCR(ret.value)
              /\ ~HasCR(loaded[ret.args.name]) => ret.value = loaded[ret.args.name] )
    /\ [][ IsCall("get_prompt") => prompts' = prompts ]_vars

\* get_prompt has returned the text of a file with a "\r\n" line end, loaded
\* under the name, while the other name is loaded too
C12_Witness ==
    /\ ret.op = "get_prompt"
    /\ ret.status = "ok"
    /\ loaded[ret.args.name] = "line one\r\nline two"
    /\ ret.value = "line one\nline two"
    /\ DOMAIN prompts = PromptNames

\* C13: get_prompt(name) for a name no load_prompt call has loaded raises
\* PromptNotFoundError, whatever calls came before it (loads of other names
\* and loads of the name that failed included), and leaves the binding table,
\* the provider cache and the prompt table as they were.
C13_UnknownPromptFails ==
    [][ (IsCall("get_prompt") /\ ret'.args.name \notin DOMAIN loaded)
          => /\ ret'.status = "PromptNotFoundError"
             /\ ret'.value = ret'.args.name
             /\ agents' = agents /\ providers' = providers /\ prompts' = prompts
      ]_vars

\* get_prompt has raised PromptNotFoundError for a name while the other name
\* is loaded and a role is bound
C13_Witness ==
    /\ ret.op = "get_prompt"
    /\ ret.status = "PromptNotFoundError"
    /\ ret.args.name \notin DOMAIN loaded
    /\ DOMAIN loaded # {}
    /\ DOMAIN agents # {}

\* C17 (as claimed): a dispatch to a role configured (by a configure_agent
\* call that returned) with a built-in provider name, for which the cache
\* holds a handle, returns a text in which the role's name occurs, case
\* ignored, whether the handle is the vendor's provider or the no-op provider
\* that stands in for it.
C17_DispatchNamesRole ==
    (/\ ret.op = "dispatch"
     /\ ret.args.role \in configured
     /\ ret.args.role \in DOMAIN agents
     /\ agents[ret.args.role].provider \in BuiltInNames
     /\ agents[ret.args.role].provider \in DOMAIN providers)
    => /\ ret.status = "ok"
       /\ Contains(Lower(ret.value), ret.args.role)

\* C20 (as claimed): every role that has a binding has its provider name in
\* the provider cache, and no dispatch to a role that has a binding fails on
\* the lookup in the cache.
C20_BoundProviderCached ==
    /\ \A role \in DOMAIN agents : agents[role].provider \in DOMAIN providers
    /\ (ret.op = "dispatch" /\ ret.args.role \in DOMAIN agents)
       => ret.status # "KeyError"

(***************************************************************************)
(* Properties of the pipeline (checked under Spec).                        *)
(***************************************************************************)
\* the last call of the caller was an execute, and it has returned or raised
Finished == pc = "idle" /\ ret.op = "execute"

\* the last call of the caller was an execute that returned a result
Returned == result # <<>>

\* the dispatches the last execute made for a stage
CountStage(stage) ==
    Cardinality({i \in 1..Len(dispatch_log) : dispatch_log[i].stage = stage})

\* no round of a run of max_iterations rounds has a score that meets the threshold
NeverMeets ==
    \A i \in 0..(max_iterations - 1) : ~FloatGE(QualityScore(i), quality_threshold)

\* C2 (as claimed): with the generator, reviewer and refiner roles configured
\* (each by a configure_agent call that returned) and a threshold no round
\* meets, execute returns a result whose history has max_iterations + 1
\* entries, after max_iterations reviewer dispatches and max_iterations
\* refiner dispatches.
C2_FullRunLength ==
    (/\ Finished
     /\ {generator_role, reviewer_role, refiner_role} \subseteq configured
     /\ NeverMeets)
    => /\ Returned
       /\ Len(result[1].history) = max_iterations + 1
       /\ CountStage("review") = max_iterations
       /\ CountStage("refine") = max_iterations

\* C3: execute stops at the first round whose score meets the threshold: the
\* scores of all rounds before the last one run are below the threshold, no
\* review or refine follows a round whose score meets it, and a returned
\* result comes after max_iterations rounds or a round that met the
\* threshold, its iterations field being the rounds run plus one.
C3_StopsAtFirstRoundMeetingThreshold ==
    LET rounds == Len(score_log)
    IN /\ rounds <= max_iterations
       /\ \A i \in 1..rounds :
             FloatGE(score_log[i], quality_threshold)
             => i = rounds /\ pc \in {"finalize", "idle"}
       /\ CountStage("refine") \in {rounds, rounds + 1}
       /\ CountStage("review") \in {rounds, rounds + 1}
       /\ Returned
          => /\ rounds = max_iterations
                \/ (rounds > 0 /\ FloatGE(score_log[rounds], quality_threshold))
             /\ CountStage("review") = rounds
             /\ CountStage("refine") = rounds
             /\ Len(dispatch_log) = 1 + 2 * rounds
             /\ result[1].iterations = rounds + 1

\* an execute allowed 5 rounds has returned after 3: the third was the first
\* to meet the threshold
C3_Witness ==
    /\ Returned
    /\ max_iterations = 5
    /\ Len(score_log) = 3
    /\ FloatGE(score_log[3], quality_threshold)
    /\ result[1].iterations = 4

\* C5: every result execute returns has as many history entries as its
\* iterations field says.
C5_HistoryLengthIsIterations ==
    Returned => Len(result[1].history) = result[1].iterations

\* a result has been returned by a run that ended early, with four drafts
C5_Witness ==
    /\ Returned
    /\ Len(result[1].history) = 4
    /\ result[1].iterations = 4
    /\ max_iterations = 5

\* C7 (as claimed): with max_iterations = 0 and the generator role configured
\* (by a configure_agent call that returned), execute makes one generator
\* dispatch and no other, and returns a result with iterations = 1 and
\* quality_score = 0.0.
C7_ZeroIterations ==
    (Finished /\ max_iterations = 0 /\ generator_role \in configured)
    => /\ Len(dispatch_log) = 1
       /\ dispatch_log[1].stage = "generate"
       /\ Returned
       /\ result[1].iterations = 1
       /\ result[1].quality_score = Float(0)

\* C8: execute is fail-stop: a dispatch that raised is the last dispatch of
\* its run, the run has ended with that very error (RoleNotConfiguredError
\* naming the role when the role has no binding) and without a result; and
\* an execute ends with an error only when its last dispatch raised it.
C8_FailStop ==
    /\ \A i \in 1..Len(dispatch_log) :
          dispatch_log[i].status # "ok"
          => /\ i = Len(dispatch_log)
             /\ Finished
             /\ result = <<>>
             /\ ret.status = dispatch_log[i].status
             /\ ret.value = dispatch_log[i].value
             /\ dispatch_log[i].role \notin DOMAIN agents
                => /\ ret.status = "RoleNotConfiguredError"
                   /\ ret.value = dispatch_log[i].role
    /\ (Finished /\ ret.status # "ok")
       => /\ dispatch_log # <<>>
          /\ dispatch_log[Len(dispatch_log)].status = ret.status
          /\ result = <<>>

\* an execute has ended with RoleNotConfiguredError out of the refiner
\* dispatch of its first round, after two dispatches that returned
C8_Witness ==
    /\ Finished
    /\ ret.status = "RoleNotConfiguredError"
    /\ Len(dispatch_log) = 3
    /\ dispatch_log[3].stage = "refine"
    /\ dispatch_log[1].status = "ok" /\ dispatch_log[2].status = "ok"

\* C9 (as claimed): the quality_score of every result execute returns is in
\* [0.0, 1.0].
C9_ScoreInUnitInterval ==
    Returned
    => /\ FloatGE(result[1].quality_score, Float(0))
       /\ FloatLE(result[1].quality_score, Float(100))

\* C15: in every result execute returns, final_output is the last entry of
\* history, history[0] is what the generator dispatch returned, and metadata
\* holds the initial prompt and the context execute was called with.  When
\* no round ran, quality_score is 0.0 and final_output is the generator's
\* output; otherwise quality_score is the score computed in the last round
\* and final_output is what the last refiner dispatch returned, the echo of
\* its refine prompt (by the no-op provider, or the registry's placeholder).
C15_ResultFields ==
    Returned
    => LET r == result[1]
           n == Len(r.history)
           last == dispatch_log[Len(dispatch_log)]
       IN /\ n >= 1
          /\ r.final_output = r.history[n]
          /\ dispatch_log[1].stage = "generate"
          /\ r.history[1] = dispatch_log[1].value
          /\ r.metadata.initial_prompt = ret.args.initial_prompt
          /\ r.metadata.context = ret.args.context
          /\ n = 1 => /\ r.quality_score = Float(0)
                      /\ score_log = <<>>
                      /\ Len(dispatch_log) = 1
          /\ n > 1 => /\ Len(score_log) = n - 1
                      /\ r.quality_score = score_log[n - 1]
                      /\ r.quality_score[1] = 70 + 10 * (n - 2)
                      /\ last.stage = "refine"
                      /\ r.final_output = last.value
                      /\ last.value \in
                            { MockText(last.prompt, agents[refiner_role].model),
                              PlaceholderText(refiner_role, last.prompt) }
                      /\ Contains(last.value, Prefix(last.prompt, 50))

\* an execute with a context has returned after two rounds: three drafts, the
\* last one the no-op provider's echo of the second refine prompt
C15_Witness ==
    /\ Returned
    /\ Len(result[1].history) = 3
    /\ Len(dispatch_log) = 5
    /\ result[1].final_output = MockText(dispatch_log[5].prompt, "test-model")
    /\ result[1].final_output # result[1].history[1]
    /\ result[1].quality_score = QualityScore(1)
    /\ result[1].metadata.context # <<>>

\* C16 (as claimed): the iterations field of every result execute returns is
\* the number of refiner dispatches the execute call made.
C16_IterationsCountsRefinements ==
    Returned => result[1].iterations = CountStage("refine")

\* C19: the dispatches of one execute call are the generator role's with the
\* initial prompt, then (reviewer role, refiner role) pairs in strict
\* alternation, at most max_iterations of them; a dispatch is made only when
\* the one before it has returned; the review prompt is built from the output
\* of the dispatch before it (the generator's or the last refiner's), the
\* refine prompt from the feedback of the review before it; a result is
\* returned only after whole pairs; and the qa role is dispatched only when
\* it is the Role of one of the three stages.
C19_DispatchOrder ==
    /\ Len(dispatch_log) <= 1 + 2 * max_iterations
    /\ \A i \in 1..Len(dispatch_log) :
          LET d == dispatch_log[i]
          IN /\ i = 1 => /\ d.stage = "generate"
                         /\ d.role = generator_role
                         /\ d.prompt = ret.args.initial_prompt
             /\ (i > 1 /\ i % 2 = 0)
                => /\ d.stage = "review"
                   /\ d.role = reviewer_role
                   /\ d.prompt = "Review this output: " \o dispatch_log[i - 1].value
             /\ (i > 1 /\ i % 2 = 1)
                => /\ d.stage = "refine"
                   /\ d.role = refiner_role
                   /\ d.prompt = "Refine based on feedback: " \o dispatch_log[i - 1].value
             /\ i > 1 => dispatch_log[i - 1].status = "ok"
             /\ qa_role \notin {generator_role, reviewer_role, refiner_role}
                => d.role # qa_role
    /\ Returned => Len(dispatch_log) % 2 = 1

\* an execute of a pipeline whose qa role is none of its stages' roles has
\* returned after generator, reviewer, refiner, reviewer, refiner
C19_Witness ==
    /\ Returned
    /\ Len(dispatch_log) = 5
    /\ qa_role \notin {generator_role, reviewer_role, refiner_role}
    /\ reviewer_role # refiner_role
    /\ dispatch_log[4].role = reviewer_role
    /\ dispatch_log[5].role = refiner_role

(***************************************************************************)
(* Termination of execute (checked under SpecLive).                        *)
(***************************************************************************)
\* C21: every execute call, for max_iterations >= 0, ends: it returns a
\* result or an error leaves it; it makes at most 1 + 2 * max_iterations
\* dispatches, and a call that returns a result has made exactly
\* 1 + 2 * (len(history) - 1) of them.
C21_ExecuteTerminates ==
    /\ (pc # "idle") ~> (Finished /\ (Returned \/ ret.status # "ok"))
    /\ [](Len(dispatch_log) <= 1 + 2 * max_iterations)
    /\ [](Returned
            => Len(dispatch_log) = 1 + 2 * (Len(result[1].history) - 1))

\* an execute allowed 5 rounds has returned a result after all of them: 11
\* dispatches and 6 drafts
C21_Witness ==
    /\ Returned
    /\ max_iterations = 5
    /\ Len(dispatch_log) = 11
    /\ Len(result[1].history) = 6

(***************************************************************************)
(* Properties of the no-op provider (checked under SpecMock).              *)
(***************************************************************************)
\* C14: MockProvider.generate never fails; the text it returns is "[Mock ",
\* the model, "] Response to: ", the first 50 characters of the prompt (the
\* whole prompt when it is shorter) and "...", so that a call whose model and
\* first 50 prompt characters are those of the call before it returns the
\* same text; and each call adds exactly one to call_count.
C14_MockGenerateEchoes ==
    [][ IsCall("generate")
          => LET prompt == ret'.args.prompt
                 model == ret'.args.model
                 kept == IF Len(prompt) < 50 THEN Len(prompt) ELSE 50
             IN /\ ret'.status = "ok"
                /\ ret'.value = "[Mock " \o model \o "] Response to: "
                                   \o SubSeq(prompt, 1, kept) \o "..."
                /\ Len(ret'.value) <= Len(model) + 24 + 50
                /\ mock'.call_count = mock.call_count + 1
                /\ (/\ ret.op = "generate"
                    /\ ret.args.model = model
                    /\ Len(ret.args.prompt) >= 50 /\ Len(prompt) >= 50
                    /\ SubSeq(ret.args.prompt, 1, 50) = SubSeq(prompt, 1, 50))
                   => ret'.value = ret.value
      ]_vars

\* the third generate call of a MockProvider, with a prompt of 100
\* characters, has returned the echo of the first 50
C14_Witness ==
    /\ ret.op = "generate"
    /\ ret.args.prompt = X50 \o X50
    /\ ret.args.model = "m"
    /\ ret.value = "[Mock m] Response to: " \o X50 \o "..."
    /\ mock.call_count = 3

(***************************************************************************)
(* Properties of the cost tracker (checked under SpecCost).                *)
(***************************************************************************)
\* C18: for a model absent from the pricing table estimate_cost returns 0.0
\* and raises nothing, for all token counts, and changes nothing; add_call
\* for such a model with no cost given records the call (with cost 0.0),
\* adds its token counts to the totals and leaves total_cost as it is.
C18_UnpricedModelCostsNothing ==
    [][ /\ (IsCall("estimate_cost") /\ ret'.args.model \notin DOMAIN MODEL_COSTS)
           => /\ ret'.status = "ok"
              /\ tracker_ret' = <<Usd(0)>>
              /\ tracker' = tracker
        /\ (/\ IsCall("add_call")
            /\ ret'.args.model \notin DOMAIN MODEL_COSTS
            /\ ret'.args.cost = <<>>)
           => /\ ret'.status = "ok"
              /\ tracker'.call_history =
                    Append(tracker.call_history,
                           [model |-> ret'.args.model,
                            input_tokens |-> ret'.args.input_tokens,
                            output_tokens |-> ret'.args.output_tokens,
                            cost |-> Usd(0)])
              /\ tracker'.total_input_tokens =
                    tracker.total_input_tokens + ret'.args.input_tokens
              /\ tracker'.total_output_tokens =
                    tracker.total_output_tokens + ret'.args.output_tokens
              /\ tracker'.total_cost = tracker.total_cost
      ]_vars

\* a call of a model absent from the pricing table, with no cost given, has
\* been recorded by a tracker whose total cost is 0.06 USD
C18_Witness ==
    /\ ret.op = "add_call"
    /\ ret.status = "ok"
    /\ ret.args.model = "test-model"
    /\ ret.args.cost = <<>>
    /\ Len(tracker.call_history) = 3
    /\ tracker.call_history[3].cost = Usd(0)
    /\ tracker.total_cost = Usd(2 * UnitCost)
    /\ tracker.total_output_tokens > 0

====
